---- MODULE Spec2Model ----
(***************************************************************************)
(* Model of flipton's MastodonInstanceSwitcher (instanceswitcher.py).      *)
(*                                                                         *)
(* Representation                                                          *)
(*   - Python None is the string "None".                                   *)
(*   - A host name is an atomic string; an account handle is a sequence of *)
(*     tokens, a token being "@" or a maximal run of non-"@" characters,   *)
(*     so <<"@","u","@","a">> stands for "@u@a".                           *)
(*   - A dict is a function whose DOMAIN is the set of its keys.           *)
(*   - The key "@".join((user, host)) of the id cache is the pair          *)
(*     <<user, host>> (user and host hold no "@").                         *)
(*   - A client object is the string "Mastodon"; it is identified by the   *)
(*     key of the client cache it is stored under.                         *)
(*   - Every handler is one action; the wrapped library's answers (client  *)
(*     creation, app registration, account lookup, the delegated call) are *)
(*     chosen nondeterministically per call in the record env.  One call   *)
(*     consults each kind of answer at most once (OneAnswerPerCall), so    *)
(*     one answer of each kind per call loses no behaviour.                *)
(*   - net logs Mastodon(api_base_url=host) as the operation "Mastodon",   *)
(*     both where _create_app instantiates it to register the app (line    *)
(*     86) and where set_host instantiates the client it caches (line 151).*)
(*   - **kwargs is a function from keyword names to values; the field      *)
(*     calls of a handler's state counts the calls line 212 makes, so the  *)
(*     last ret.calls entries of net are the delegated calls.              *)
(***************************************************************************)
EXTENDS Naturals, Sequences, FiniteSets

VARIABLES clients, active_host, previous_host, acct_ids,
          use_app_tokens, app_tokens,
          ret, net, created, looked

vars == <<clients, active_host, previous_host, acct_ids,
          use_app_tokens, app_tokens, ret, net, created, looked>>

None == "None"

\* The marker of a result page (an AttribAccessList) passed in place of a host.
Page == "AttribAccessList"

\* ------------------------------------------------------------------ bounds
\* Largest number of "@"-separated parts of a generated account handle.
MaxParts == 3

\* Number of distinct account ids the lookups answer with.
NumIds == 1

\* ------------------------------------------------------------------ inputs
Users == {"u"}

\* Host names as a caller writes them; "https://a" names host "a".
HostNames == {"a", "b", "https://a"}

\* Hosts as they are written in account handles.
HandleHosts == {"a", "b"}

\* Host and further names of the handles with more parts than user@host.
LongHost == "a"
TailNames == {"b"}

\* Ids the account lookup may answer with: the first NumIds of IdNames.
IdNames == <<"101", "102", "103">>
Ids == {IdNames[i] : i \in 1..NumIds}

\* The account methods of MASTODON_PUBLIC_API: account_lookup, which line 263
\* delegates to the client's "account", and one of the four others, which
\* differ by the name they delegate
AccountMethods == {"account_statuses", "account_lookup"}

\* Of the instance methods: a continuation method, create_app, whose
\* delegated call has the name of the registration at line 87, and one of
\* the others, which differ by the name they delegate
InstanceMethods == {"timeline_public", "fetch_next", "create_app"}

\* method_name[:6] == "fetch_", over the names of MASTODON_PUBLIC_API
IsFetch(method_name) ==
    method_name \in {"fetch_next", "fetch_previous", "fetch_remaining"}

\* "@".join(parts), as a token sequence
RECURSIVE JoinAt(_)
JoinAt(parts) ==
    IF Len(parts) = 0 THEN <<>>
    ELSE IF Len(parts) = 1 THEN <<parts[1]>>
    ELSE <<parts[1], "@">> \o JoinAt(Tail(parts))

\* Sequences of n names taken from S
RECURSIVE SeqsOf(_, _)
SeqsOf(S, n) ==
    IF n = 0 THEN {<<>>}
    ELSE {<<x>> \o t : x \in S, t \in SeqsOf(S, n - 1)}

\* The part lists user, user@host, and user@host@x... of at most MaxParts parts
HandleParts ==
    {<<u>> : u \in Users}
    \cup {<<u, h>> : u \in Users, h \in HandleHosts}
    \cup {<<u, LongHost>> \o t : u \in Users,
                                 t \in UNION {SeqsOf(TailNames, k) : k \in 1..(MaxParts - 2)}}

\* The handles, each with and without the "@" prefix
AcctStrings ==
    {JoinAt(p) : p \in HandleParts} \cup {<<"@">> \o JoinAt(p) : p \in HandleParts}

IntAcct(i) == [type |-> "int", val |-> <<i>>]
StrAcct(sq) == [type |-> "str", val |-> sq]
NoneAcct == [type |-> "NoneType", val |-> <<>>]

AcctInputs ==
    {NoneAcct} \cup {IntAcct(i) : i \in Ids} \cup {StrAcct(a) : a \in AcctStrings}

\* The id a caller passes as id=: one that no lookup answers with
CallerIds == {"7"}

\* **kwargs of a call without keyword arguments
NoKwargs == [k \in {} |-> None]

\* The keyword arguments a caller passes besides acct or host: none, or an id=
Kwargs == UNION {[D -> CallerIds] : D \in SUBSET {"id"}}

\* What the wrapped library answers during one call:
\*   mk  Mastodon(**masto_args) at line 151 returns a client (FALSE: raises
\*       MastodonError)
\*   ap  Mastodon(api_base_url=host) at line 86 returns (FALSE: raises
\*       MastodonError)
\*   tk  create_app at line 87 returns a token (FALSE: raises MastodonError)
\*   lk  the id of account_lookup's answer (None: account_lookup raises)
\*   rs  the delegated method returns (or raises MastodonError)
\* An answer that a failure before it keeps from being asked for is left
\* at one value: create_app is not called once line 86 has raised, line 151
\* is not reached when the registration gave no token.
TokenModeEnvs ==
    {e \in [mk : BOOLEAN, ap : BOOLEAN, tk : BOOLEAN,
            lk : Ids \cup {None},
            rs : {"ok", "MastodonError"}] :
        (~e.ap => ~e.tk) /\ (~e.tk => e.mk)}

\* Without app tokens lines 86 and 87 are never reached
PlainModeEnvs == {e \in TokenModeEnvs : e.ap /\ e.tk}

Envs == IF use_app_tokens THEN TokenModeEnvs ELSE PlainModeEnvs

\* set_host makes no lookup and no delegated call, get_acct_id no delegated
\* call, an instance method no lookup: their answers are left out there
HostEnvs == {e \in Envs : e.lk = None /\ e.rs = "ok"}
LookupEnvs == {e \in Envs : e.rs = "ok"}
CallEnvs == {e \in Envs : e.lk = None}
RawEnvs == {e \in TokenModeEnvs : e.mk /\ e.ap /\ e.tk /\ e.lk = None}
NoEnvs == {e \in RawEnvs : e.rs = "ok"}

\* ------------------------------------------------------------------ helpers
\* d[k] = v on a dict
Put(d, k, v) == [x \in DOMAIN d \cup {k} |-> IF x = k THEN v ELSE d[x]]

\* {**d1, **d2}: the entries of both dicts, those of d2 where both have the key
Merge(d1, d2) ==
    [x \in DOMAIN d1 \cup DOMAIN d2 |-> IF x \in DOMAIN d2 THEN d2[x] ELSE d1[x]]

\* The id= among the keyword arguments of a delegated call, None without one
IdOf(kwargs) == IF "id" \in DOMAIN kwargs THEN kwargs["id"] ELSE None

\* One operation of the wrapped library, as recorded in net: the client's
\* host, the handle of a lookup, and the id a lookup answered with or a
\* delegated call was given
NetOp(op, host, acct, id) == [op |-> op, host |-> host, acct |-> acct, id |-> id]

Log(s, e) == [s EXCEPT !.net = Append(@, e)]

\* The same for client_method(**kwargs) at line 212: calls counts the
\* delegated calls of the log, which are its last entries
Call(s, e) == [Log(s, e) EXCEPT !.calls = @ + 1]

\* How a handler ends: by raising (at a source line) or by returning a value
Raise(s, type, line) == [st |-> s, raised |-> type, line |-> line, value |-> None]
Return(s, v) == [st |-> s, raised |-> None, line |-> 0, value |-> v]

\* parse_url(hostname).hostname, over HostNames: the scheme is dropped, and
\* the empty string has no host
parse_url_hostname(hostname) ==
    CASE hostname = "https://a" -> "a"
      [] hostname = "" -> None
      [] OTHER -> hostname

\* acct.split("@"): the list of the "@"-free parts ("" for an empty part)
RECURSIVE split(_)
split(sq) ==
    IF Len(sq) = 0 THEN <<"">>
    ELSE IF sq[1] = "@" THEN <<"">> \o split(Tail(sq))
    ELSE <<sq[1]>> \o Tail(split(Tail(sq)))

\* ------------------------------------------------------------------ set_host
\* _create_app (lines 85-90): instantiate Mastodon for the host, then
\* register the app with it; either may raise MastodonError
_create_app(s, host, env) ==
    LET s1 == Log(s, NetOp("Mastodon", host, <<>>, None))
    IN IF ~env.ap THEN Raise(s1, "MastodonError", 86)
       ELSE LET s2 == Log(s1, NetOp("create_app", host, <<>>, None))
            IN IF env.tk THEN Return(s2, "token")
               ELSE Raise(s2, "MastodonError", 87)

\* _get_app_token: the stored token, or a newly registered one, or None
_get_app_token(s, host, env) ==
    IF host \in s.app_tokens THEN [st |-> s, token |-> "token"]
    ELSE LET c == _create_app(s, host, env)
         IN IF c.raised = None
            THEN [st |-> [c.st EXCEPT !.app_tokens = @ \cup {host}], token |-> c.value]
            ELSE [st |-> c.st, token |-> None]

\* Lines 150-160: instantiate the client; a MastodonError is recorded as None.
\* The except branch does not return, so line 160 runs after it as well.
create_client(s, host, env) ==
    LET s1 == Log(s, NetOp("Mastodon", host, <<>>, None))
        s2 == IF env.mk
              THEN [s1 EXCEPT !.clients = Put(@, host, "Mastodon")]
              ELSE [s1 EXCEPT !.clients = Put(@, host, None), !.active_host = None]
    IN [s2 EXCEPT !.active_host = host]

\* Lines 129-137: the host is in the client cache already
activate_cached(s, host) ==
    IF s.clients[host] = None
    THEN [s EXCEPT !.active_host = None]
    ELSE [s EXCEPT !.active_host = host]

\* A failed creation is not remembered: a cached None is tried again
set_host_retrying(s, hostname, env) ==
    IF hostname = None THEN [s EXCEPT !.active_host = None]
    ELSE LET host == parse_url_hostname(hostname)
             s1 == [s EXCEPT !.previous_host = host]
         IN IF s1.active_host = host THEN s1
            ELSE IF host \in DOMAIN s1.clients /\ s1.clients[host] # None
                 THEN activate_cached(s1, host)
            ELSE create_client(s1, host, env)

\* The test for the already active host is left out
set_host_eager(s, hostname, env) ==
    IF hostname = None THEN [s EXCEPT !.active_host = None]
    ELSE LET host == parse_url_hostname(hostname)
             s1 == [s EXCEPT !.previous_host = host]
         IN IF host \in DOMAIN s1.clients THEN activate_cached(s1, host)
            ELSE create_client(s1, host, env)

set_host(s, hostname, env) ==
    IF hostname = None THEN [s EXCEPT !.active_host = None]
    ELSE LET host == parse_url_hostname(hostname)
             s1 == [s EXCEPT !.previous_host = host]
         IN IF s1.active_host = host THEN s1
            ELSE IF host \in DOMAIN s1.clients THEN activate_cached(s1, host)
            ELSE IF use_app_tokens
                 THEN LET t == _get_app_token(s1, host, env)
                      IN IF t.token = None
                         THEN [t.st EXCEPT !.clients = Put(@, host, None),
                                           !.active_host = None]
                         ELSE create_client(t.st, host, env)
                 ELSE create_client(s1, host, env)

\* ------------------------------------------------------------------ get_acct_id
\* Lines 195-200: the lookup on the active client; any exception gives None
lookup_id(s, acct, env) ==
    IF s.active_host \notin DOMAIN s.clients THEN [st |-> s, id |-> None]
    ELSE IF s.clients[s.active_host] = None THEN [st |-> s, id |-> None]
    ELSE [st |-> Log(s, NetOp("account_lookup", s.active_host, acct, env.lk)),
          id |-> env.lk]

\* The looked-up id is not stored (line 203 left out)
get_acct_id_no_store(s, user, host, env) ==
    LET acct == <<user, host>>
    IN IF acct \in DOMAIN s.acct_ids THEN Return(s, s.acct_ids[acct])
       ELSE LET orig_host == s.active_host
                s1 == set_host(s, host, env)
            IN IF s1.active_host = None
               THEN Return(set_host(s1, orig_host, env), None)
               ELSE LET l == lookup_id(s1, acct, env)
                    IN Return(set_host(l.st, orig_host, env), l.id)

get_acct_id(s, user, host, env) ==
    LET acct == <<user, host>>
    IN IF acct \in DOMAIN s.acct_ids THEN Return(s, s.acct_ids[acct])
       ELSE LET orig_host == s.active_host
                s1 == set_host(s, host, env)
            IN IF s1.active_host = None
               THEN Return(set_host(s1, orig_host, env), None)
               ELSE LET l == lookup_id(s1, acct, env)
                        s2 == set_host(l.st, orig_host, env)
                    IN Return([s2 EXCEPT !.acct_ids = Put(@, acct, l.id)], l.id)

\* ------------------------------------------------------------------ _call_client
\* A delegated call that raised is made a second time
_call_client_retrying(s, method_name, kwargs, env) ==
    IF s.active_host \notin DOMAIN s.clients THEN Raise(s, "KeyError", 209)
    ELSE IF s.clients[s.active_host] = None THEN Raise(s, "AttributeError", 210)
    ELSE LET s1 == Call(s, NetOp(method_name, s.active_host, <<>>, IdOf(kwargs)))
         IN IF env.rs = "ok" THEN Return(s1, "response")
            ELSE Raise(Call(s1, NetOp(method_name, s.active_host, <<>>, IdOf(kwargs))),
                       "FliptonError", 214)

_call_client(s, method_name, kwargs, env) ==
    IF s.active_host \notin DOMAIN s.clients THEN Raise(s, "KeyError", 209)
    ELSE IF s.clients[s.active_host] = None THEN Raise(s, "AttributeError", 210)
    ELSE LET s1 == Call(s, NetOp(method_name, s.active_host, <<>>, IdOf(kwargs)))
         IN IF env.rs = "ok" THEN Return(s1, "response")
            ELSE Raise(s1, "FliptonError", 214)

\* A restore that is left out
restore_host_skipped(s, orig_host) == s

\* self.active_host = orig_host (lines 253, 258, 269, 291, 300)
restore_host(s, orig_host) == [s EXCEPT !.active_host = orig_host]

\* ------------------------------------------------------------------ generated methods
\* Lines 262-265: the client method an account method delegates to
ClientMethod(method_name) ==
    IF method_name = "account_lookup" THEN "account" ELSE method_name

\* Lines 261-270: the delegated call of an account method, given the
\* resolved id and then the caller's keyword arguments (an id= of the
\* caller replaces the resolved one); active host restored
account_call(s, method_name, acct_id, kwargs, orig_host, env) ==
    LET c == _call_client(s, ClientMethod(method_name),
                          Merge([id |-> acct_id], kwargs), env)
    IN [c EXCEPT !.st = restore_host(c.st, orig_host)]

\* A bare handle without an active host is passed on instead of refused
account_resolve_unchecked(s, method_name, user, given, kwargs, orig_host, env) ==
    LET host == IF given = None THEN s.active_host ELSE given
        s1 == IF given = None THEN s ELSE set_host(s, host, env)
    IN IF s1.active_host = None
       THEN Raise(restore_host(s1, orig_host), "Exception", 254)
       ELSE LET g == get_acct_id(s1, user, host, env)
            IN IF g.value = None
               THEN Raise(restore_host(g.st, orig_host), "FliptonError", 259)
               ELSE account_call(g.st, method_name, g.value, kwargs, orig_host, env)

\* Lines 244-259: activate the account's host and resolve the id
account_resolve(s, method_name, user, given, kwargs, orig_host, env) ==
    IF given = None /\ s.active_host = None THEN Raise(s, "FliptonError", 246)
    ELSE LET host == IF given = None THEN s.active_host ELSE given
             s1 == IF given = None THEN s ELSE set_host(s, host, env)
         IN IF s1.active_host = None
            THEN Raise(restore_host(s1, orig_host), "Exception", 254)
            ELSE LET g == get_acct_id(s1, user, host, env)
                 IN IF g.value = None
                    THEN Raise(restore_host(g.st, orig_host), "FliptonError", 259)
                    ELSE account_call(g.st, method_name, g.value, kwargs, orig_host, env)

\* The "@" prefix is kept
strip_at_kept(val) == val

\* Lines 234-236: remove the "@" prefix
strip_at(val) == IF val[1] = "@" THEN Tail(val) ELSE val

\* Only handles of more than three parts are refused
too_many_parts_off_by_one(asplit) == Len(asplit) > 3

\* Lines 238-243: a handle of neither one nor two parts is refused
too_many_parts(asplit) == Len(asplit) > 2

\* generate_account_method(method_name).method(self, acct, **kwargs)
account_method(s, method_name, acct, kwargs, env) ==
    LET orig_host == s.active_host
    IN IF acct.type = "int"
       THEN account_call(s, method_name, acct.val[1], kwargs, orig_host, env)
       ELSE IF acct.type = "NoneType" THEN Raise(s, "FliptonError", 233)
       ELSE IF Len(acct.val) = 0 THEN Raise(s, "IndexError", 234)
       ELSE LET asplit == split(strip_at(acct.val))
            IN IF too_many_parts(asplit) THEN Raise(s, "FliptonError", 243)
               ELSE account_resolve(s, method_name, asplit[1],
                                    IF Len(asplit) = 1 THEN None ELSE asplit[2],
                                    kwargs, orig_host, env)

\* Lines 288-301: activate the target host, call, restore
instance_call(s, method_name, host, kwargs, orig_host, env) ==
    LET s1 == set_host(s, host, env)
    IN IF s1.active_host = None
       THEN Raise(restore_host(s1, orig_host), "FliptonError", 292)
       ELSE LET c == _call_client(s1, method_name, kwargs, env)
            IN [c EXCEPT !.st = restore_host(c.st, orig_host)]

\* generate_instance_method(method_name).method(self, host, **kwargs)
instance_method(s, method_name, host, kwargs, env) ==
    LET orig_host == s.active_host
    IN IF host = Page
       THEN IF ~IsFetch(method_name) THEN Raise(s, "AssertionError", 280)
            ELSE instance_call(s, method_name, s.previous_host,
                               Put(kwargs, "first_page", host), orig_host, env)
       ELSE IF host = None
       THEN IF s.active_host = None THEN Raise(s, "FliptonError", 285)
            ELSE instance_call(s, method_name, s.active_host, kwargs, orig_host, env)
       ELSE instance_call(s, method_name, host, kwargs, orig_host, env)

\* ------------------------------------------------------------------ answers a call asks for
\* The number of "@" of a handle, not counting a leading one
Separators(val) ==
    Cardinality({i \in DOMAIN val : i > 1 /\ val[i] = "@"})

\* The id-cache key an account call with the handle val resolves, entered
\* with host active
HandleOf(val, active) ==
    LET parts == split(IF val[1] = "@" THEN Tail(val) ELSE val)
    IN <<parts[1], IF Len(parts) = 1 THEN active ELSE parts[2]>>

\* set_host(host) would try to create a client (lines 138-160): the host is
\* neither the active one nor in the client cache
Connects(host) ==
    /\ host # None
    /\ parse_url_hostname(host) \notin {None, active_host} \cup DOMAIN clients

\* The answers a call that switches to host can ask for: no answer about
\* the creation of a client unless set_host tries one, none about the
\* registration of an app when the host's token is stored, and neither a
\* lookup nor a delegated call on a client that could not be created. An
\* answer that is not asked for is left at one value.
ReadyEnvs == {e \in TokenModeEnvs : e.mk /\ e.ap /\ e.tk}
NewEnvs ==
    {e \in TokenModeEnvs : ~(e.mk /\ e.ap /\ e.tk) => (e.lk = None /\ e.rs = "ok")}
StoredEnvs == {e \in NewEnvs : e.ap /\ e.tk}
ConnectEnvs(host) ==
    IF ~Connects(host) THEN ReadyEnvs
    ELSE IF use_app_tokens /\ parse_url_hostname(host) \notin app_tokens THEN NewEnvs
    ELSE StoredEnvs

\* The answers a call that resolves the id-cache key acct on host can ask
\* for: none at all for a cached key (line 187)
ResolveEnvs(acct, host) ==
    IF acct \in DOMAIN acct_ids THEN RawEnvs ELSE ConnectEnvs(host)

\* The answers an account method can ask for, by the shape of acct: none
\* without a handle of one or two parts, only the delegated call's for an
\* id or a cached handle, none about a client for a bare handle, and not
\* the delegated call's when the lookup fails
AcctEnvs(acct) ==
    CASE acct.type = "int" -> RawEnvs
      [] acct.type = "NoneType" -> NoEnvs
      [] OTHER -> IF Separators(acct.val) > 1 THEN NoEnvs
                  ELSE IF Separators(acct.val) = 0 /\ active_host = None THEN NoEnvs
                  ELSE LET key == HandleOf(acct.val, active_host)
                       IN {e \in ConnectEnvs(IF Separators(acct.val) = 0 THEN None ELSE key[2]) :
                              IF key \in DOMAIN acct_ids THEN e.lk = None
                              ELSE e.lk = None => e.rs = "ok"}

\* The host an instance method switches to (lines 278-287)
TargetOf(host) ==
    IF host = Page THEN previous_host ELSE IF host = None THEN active_host ELSE host

\* ------------------------------------------------------------------ the state machine
\* The object's fields at the entry of a call, with an empty log
Cur ==
    [clients |-> clients, active_host |-> active_host,
     previous_host |-> previous_host, acct_ids |-> acct_ids,
     app_tokens |-> app_tokens, net |-> <<>>, calls |-> 0]

\* Hosts whose client creation the log holds (each attempt instantiates
\* Mastodon first, at line 86 or at line 151), and handles it looked up
CreatedIn(log) ==
    {log[i].host : i \in {j \in DOMAIN log : log[j].op = "Mastodon"}}
LookedIn(log) == {log[i].acct : i \in {j \in DOMAIN log : log[j].op = "account_lookup"}}

\* The fields after a call that ended as r, and what the caller observes:
\* ret is the call (op, the name of a generated method, its target
\* argument, the active host at its entry), how it ended and how many
\* delegated calls it made, net the library operations it made; created
\* and looked accumulate, over the session, the hosts a client creation
\* was attempted for and the handles an account lookup was made for
Commit(op, method, arg, r) ==
    /\ clients' = r.st.clients
    /\ active_host' = r.st.active_host
    /\ previous_host' = r.st.previous_host
    /\ acct_ids' = r.st.acct_ids
    /\ app_tokens' = r.st.app_tokens
    /\ net' = r.st.net
    /\ ret' = [op |-> op, method |-> method, arg |-> arg, entry |-> active_host,
               raised |-> r.raised, line |-> r.line, value |-> r.value,
               calls |-> r.st.calls]
    /\ created' = created \cup CreatedIn(r.st.net)
    /\ looked' = looked \cup LookedIn(r.st.net)
    /\ UNCHANGED use_app_tokens

\* The contents the token file of an earlier session may hold (lines 112-115):
\* the hosts that session registered an app for, any set of them
StoredTokens == SUBSET {"a", "b"}

\* __init__: empty caches, no host, either token mode; in token mode the
\* tokens are those of the token file, if there is one
Init ==
    /\ clients = << >>
    /\ active_host = None
    /\ previous_host = None
    /\ acct_ids = << >>
    /\ use_app_tokens \in BOOLEAN
    /\ app_tokens \in (IF use_app_tokens THEN StoredTokens ELSE {{}})
    /\ ret = [op |-> "__init__", method |-> None, arg |-> None, entry |-> None,
              raised |-> None, line |-> 0, value |-> None, calls |-> 0]
    /\ net = <<>>
    /\ created = {}
    /\ looked = {}

SetHost ==
    \E hostname \in HostNames \cup {None} : \E env \in HostEnvs \cap ConnectEnvs(hostname) :
        \E s \in {set_host(Cur, hostname, env)} :
            Commit("set_host", None, hostname, Return(s, None))

GetAcctId ==
    \E user \in Users : \E host \in HandleHosts :
      \E env \in LookupEnvs \cap ResolveEnvs(<<user, host>>, host) :
        \E r \in {get_acct_id(Cur, user, host, env)} :
            Commit("get_acct_id", None, <<user, host>>, r)

AccountCall ==
    \E acct \in AcctInputs : \E env \in AcctEnvs(acct) :
        \E method_name \in AccountMethods : \E kwargs \in Kwargs :
            \E r \in {account_method(Cur, method_name, acct, kwargs, env)} :
                Commit("account", method_name, acct, r)

InstanceCall ==
    \E host \in HostNames \cup {None, Page} :
      \E env \in CallEnvs \cap ConnectEnvs(TargetOf(host)) :
        \E method_name \in InstanceMethods : \E kwargs \in Kwargs :
            \E r \in {instance_method(Cur, method_name, host, kwargs, env)} :
                Commit("instance", method_name, host, r)

Next == SetHost \/ GetAcctId \/ AccountCall \/ InstanceCall

Spec == Init /\ [][Next]_vars

TypeOK ==
    /\ DOMAIN clients \subseteq {"a", "b"}
    /\ \A h \in DOMAIN clients : clients[h] \in {"Mastodon", None}
    /\ active_host \in {"a", "b", None}
    /\ previous_host \in {"a", "b", None}
    /\ DOMAIN acct_ids \subseteq Users \X HostNames
    /\ \A a \in DOMAIN acct_ids : acct_ids[a] \in Ids \cup {None}
    /\ app_tokens \subseteq {"a", "b"}

\* How often the log holds the library operation op
CountOp(log, op) == Cardinality({i \in DOMAIN log : log[i].op = op})

\* The log before its delegated calls
Before(log, calls) == SubSeq(log, 1, Len(log) - calls)

\* No call registers two apps, makes two lookups or two delegated calls, or
\* instantiates Mastodon more than once for the client and once more for
\* an app registration: env holds one answer of each kind.
OneAnswerPerCall ==
    LET log == Before(net, ret.calls)
    IN /\ ret.calls <= 1
       /\ CountOp(log, "create_app") <= 1
       /\ CountOp(log, "account_lookup") <= 1
       /\ CountOp(log, "Mastodon") <= 1 + CountOp(log, "create_app")

\* ------------------------------------------------------------------ properties
\* The call that led to this state was a generated method
Generated == ret.op \in {"account", "instance"}

\* The library operations of the last call that tried to reach host h
\* (registering the app, instantiating the client)
ConnectOps(h) ==
    {i \in 1..(Len(net) - ret.calls) :
        net[i].op \in {"Mastodon", "create_app"} /\ net[i].host = h}

\* The delegated library calls of the last call: the last ret.calls
\* entries of its log
Delegated == {i \in DOMAIN net : i > Len(net) - ret.calls}

\* C1: every generated method, however it ends, leaves active_host as it
\* was when the call was entered.
C1_ActiveHostRestored ==
    [][ret'.op \in {"account", "instance"} => active_host' = active_host]_vars

\* C1 witness: a generated call reached the client of another host than the
\* active one, the library raised there, and the active host is back.
C1_Witness ==
    /\ Generated
    /\ ret.raised = "FliptonError" /\ ret.line = 214
    /\ active_host # None
    /\ \E i \in Delegated : net[i].host # active_host

\* C2: a generated method that fails because the target host cannot be
\* connected, the id cannot be looked up or the library raises, raises
\* FliptonError and nothing else; this covers the call during which the
\* client creation fails and the later calls to that host.
C2_OnlyFliptonError ==
    (/\ Generated
     /\ ret.raised # None
     /\ \/ ret.line \in {214, 254, 259, 292}
        \/ \E h \in DOMAIN clients : clients[h] = None /\ ConnectOps(h) # {})
    => ret.raised = "FliptonError"

\* C3: set_host for a host that is neither active nor cached, whose client
\* creation fails, returns normally with clients[h] = None and no active host.
C3_FailedCreationDeactivates ==
    \A h \in DOMAIN clients :
        (ret.op = "set_host" /\ ConnectOps(h) # {} /\ clients[h] = None)
        => (ret.raised = None /\ active_host = None)

\* The hosts a client can be cached for
HostKeys == {parse_url_hostname(n) : n \in HostNames}

\* How often the log holds the library operation op for host h
OpsIn(log, op, h) ==
    Cardinality({i \in DOMAIN log : log[i].op = op /\ log[i].host = h})

\* How often the log holds an app registration for host h (line 87): a
\* create_app that is not among its delegated calls
Registrations(log, calls, h) == OpsIn(Before(log, calls), "create_app", h)

\* How often the log holds an account lookup of the handle a
LookupsIn(log, a) ==
    Cardinality({i \in DOMAIN log : log[i].op = "account_lookup" /\ log[i].acct = a})

\* C4: the creation of a host's client (the app registration of token
\* mode, with the Mastodon instance that makes it, and the instantiation
\* of the client) is attempted at most once per host in a session: never
\* for a host that has a cache entry (a client or the None of a failed
\* creation) or that was tried before, and once within one operation: one
\* registration at most, and one instantiation besides the registration's.
C4_CreationAtMostOnce ==
    [][\/ net' = <<>>
       \/ \A h \in HostKeys :
            IF h \in created \cup DOMAIN clients
            THEN \A i \in DOMAIN net' :
                    net'[i].host = h
                        => /\ net'[i].op # "Mastodon"
                           /\ net'[i].op = "create_app" => i > Len(net') - ret'.calls
            ELSE LET registered == Registrations(net', ret'.calls, h)
                 IN /\ registered <= 1
                    /\ OpsIn(net', "Mastodon", h) <= 1 + registered]_vars

\* C4 witness: an instance call to a host whose creation failed earlier
\* fails to connect without any library operation.
C4_Witness ==
    /\ ret.op = "instance" /\ ret.line = 292 /\ net = <<>>
    /\ ret.arg \in created
    /\ ret.arg \in DOMAIN clients /\ clients[ret.arg] = None

\* C5: get_acct_id leaves active_host as it was when it was called.
C5_GetAcctIdRestores ==
    [][ret'.op = "get_acct_id" => active_host' = active_host]_vars

\* C6: set_host(h) while h is the active host creates nothing and leaves
\* the client cache and the active host alone.
C6_SetActiveHostNoop ==
    [][(ret'.op = "set_host" /\ active_host # None /\ ret'.arg = active_host)
       => (clients' = clients /\ active_host' = active_host /\ net' = <<>>)]_vars

\* C6 witness: set_host was called with the host that was active, a host
\* with a real client.
C6_Witness ==
    /\ ret.op = "set_host" /\ ret.entry # None /\ ret.arg = ret.entry
    /\ clients[ret.arg] = "Mastodon"

\* C7: a handle's account lookup is made at most once in a session: a
\* handle that was looked up has an entry in the id cache, and no later
\* operation looks it up again.
C7_LookupAtMostOnce ==
    [][/\ looked \subseteq DOMAIN acct_ids
       /\ \A a \in Users \X HandleHosts :
             LookupsIn(net', a) <= (IF a \in looked THEN 0 ELSE 1)]_vars

\* C7 witness: an account call resolved a handle that had been looked up
\* before, from the cache: it made the delegated call and no lookup.
C7_Witness ==
    /\ ret.op = "account" /\ ret.raised = None
    /\ ret.arg.type = "str"
    /\ HandleOf(ret.arg.val, ret.entry) \in looked
    /\ Len(net) = 1 /\ Delegated = {1} /\ net[1].op = ClientMethod(ret.method)

\* C8: an account call whose acct has two or more "@"-separated host parts
\* raises FliptonError without any library operation and without changing
\* clients, acct_ids, active_host or previous_host.
C8_MalformedAcctRejected ==
    [][(ret'.op = "account" /\ ret'.arg.type = "str" /\ Separators(ret'.arg.val) >= 2)
       => /\ ret'.raised = "FliptonError"
          /\ net' = <<>>
          /\ UNCHANGED <<clients, acct_ids, active_host, previous_host>>]_vars

\* C8 witness: a malformed handle was refused while a host was active and
\* the caches were filled.
C8_Witness ==
    /\ ret.op = "account" /\ ret.arg.type = "str" /\ Separators(ret.arg.val) >= 2
    /\ ret.raised = "FliptonError"
    /\ active_host # None /\ previous_host # active_host
    /\ DOMAIN acct_ids # {}

\* What C9 compares of two calls: how they end, the library operations they
\* make (each with its client's host, handle and id), and the caches and
\* active host they leave
SameResolution(r1, r2) ==
    /\ r1.raised = r2.raised /\ r1.line = r2.line /\ r1.value = r2.value
    /\ r1.st.net = r2.st.net
    /\ r1.st.acct_ids = r2.st.acct_ids
    /\ r1.st.clients = r2.st.clients
    /\ r1.st.active_host = r2.st.active_host

\* C9: with host h active and the same answers of the library, an account
\* call with "user@h", with "@user@h" and with bare "user" (and the same
\* keyword arguments) resolve the same id under the same id-cache key and
\* make the same delegated call on the client of h, with that id.
C9_HandleFormsAgree ==
    \A u \in Users : \A h \in HandleHosts : \A m \in AccountMethods :
      \A kwargs \in Kwargs : \A env \in Envs :
        active_host = h =>
            LET bare == account_method(Cur, m, StrAcct(<<u>>), kwargs, env)
                full == account_method(Cur, m, StrAcct(<<u, "@", h>>), kwargs, env)
                pref == account_method(Cur, m, StrAcct(<<"@", u, "@", h>>), kwargs, env)
            IN /\ SameResolution(full, bare)
               /\ SameResolution(pref, bare)
               /\ bare.raised = None =>
                     /\ <<u, h>> \in DOMAIN bare.st.acct_ids
                     /\ bare.st.net[Len(bare.st.net)] =
                            NetOp(ClientMethod(m), h, <<>>, bare.st.acct_ids[<<u, h>>])

\* get_acct_id could not switch to the host of the handle a: the client
\* cache holds None for it, line 151 did not instantiate a client in this
\* call (no Mastodon operation, or only the one of an app registration
\* that gave no token), and the host was not the active one at entry
NoActiveHostFor(a, entry, cl, log, tokens) ==
    LET h == parse_url_hostname(a[2])
    IN /\ h # entry
       /\ h \in DOMAIN cl /\ cl[h] = None
       /\ \/ OpsIn(log, "Mastodon", h) = 0
          \/ use_app_tokens /\ h \notin tokens

\* C10, as claimed: whenever get_acct_id returns, the id cache holds the
\* returned value for user@host, also when the host could not be connected.
C10_ReturnedValueCached ==
    ret.op = "get_acct_id" =>
        (ret.arg \in DOMAIN acct_ids /\ acct_ids[ret.arg] = ret.value)

\* C10, amended: when get_acct_id returns, the id cache holds the returned
\* value for user@host (the id, or None after a failed lookup), except when
\* the handle was not cached and switching to host left no active host:
\* then it returns None and the id cache is as it was, without an entry.
C10_ReturnedValueCachedUnlessNoHost ==
    [][ret'.op = "get_acct_id" =>
         IF ret'.arg \notin DOMAIN acct_ids
            /\ NoActiveHostFor(ret'.arg, active_host, clients', net', app_tokens')
         THEN ret'.value = None /\ acct_ids' = acct_ids
         ELSE ret'.arg \in DOMAIN acct_ids' /\ acct_ids'[ret'.arg] = ret'.value]_vars

\* C10 witness: a lookup failed and None was cached and returned.
C10_Witness ==
    /\ ret.op = "get_acct_id" /\ ret.value = None
    /\ LookupsIn(net, ret.arg) = 1
    /\ ret.arg \in DOMAIN acct_ids /\ acct_ids[ret.arg] = None

\* C11: previous_host is None or the host of the last successful
\* activation: it has a real client, and a set_host call that ends with no
\* active host (the client of the requested host could not be created, or
\* had failed before) leaves previous_host as it was.
C11_PreviousHostWasActivated ==
    [][/\ previous_host' # None =>
             (previous_host' \in DOMAIN clients' /\ clients'[previous_host'] # None)
       /\ (ret'.op = "set_host" /\ ret'.arg # None /\ active_host' = None)
             => previous_host' = previous_host]_vars

\* The last delegated call of a log
LastOp(log) == log[Len(log)]

\* C12: a successful account call with user@h makes its delegated call on
\* the client cached for h, with the id the lookup on h answered for that
\* handle (in this call, or the one the id cache holds from an earlier
\* call), whatever host was active; a successful instance call with an
\* explicit host h makes its delegated call on the client cached for h.
C12_CallReachesTargetClient ==
    [][/\ (ret'.op = "account" /\ ret'.raised = None /\ ret'.arg.type = "str"
           /\ Separators(ret'.arg.val) = 1)
          => LET a == HandleOf(ret'.arg.val, active_host)
                 h == parse_url_hostname(a[2])
                 d == LastOp(net')
             IN /\ ret'.calls = 1 /\ d.op = ClientMethod(ret'.method) /\ d.host = h
                /\ clients'[h] = "Mastodon"
                /\ IF a \in DOMAIN acct_ids
                   THEN d.id = acct_ids[a] /\ LookupsIn(net', a) = 0
                   ELSE \E i \in DOMAIN net' :
                            net'[i] = NetOp("account_lookup", h, a, d.id)
       /\ (ret'.op = "instance" /\ ret'.raised = None /\ ret'.arg \in HostNames)
          => LET h == parse_url_hostname(ret'.arg)
                 d == LastOp(net')
             IN /\ ret'.calls = 1 /\ d.op = ret'.method /\ d.host = h
                /\ clients'[h] = "Mastodon"]_vars

\* C13: the client cache and the id cache only grow: an entry that was
\* written (a client or None, an id or None) is never removed and never
\* given another value.
C13_CachesOnlyGrow ==
    [][/\ \A h \in DOMAIN clients : h \in DOMAIN clients' /\ clients'[h] = clients[h]
       /\ \A a \in DOMAIN acct_ids :
             a \in DOMAIN acct_ids' /\ acct_ids'[a] = acct_ids[a]]_vars

\* C13 witness: both caches hold a success and a failure, and the last call
\* asked again for a host whose creation had failed.
C13_Witness ==
    /\ \E h \in DOMAIN clients : clients[h] = None
    /\ \E h \in DOMAIN clients : clients[h] = "Mastodon"
    /\ \E a \in DOMAIN acct_ids : acct_ids[a] = None
    /\ \E a \in DOMAIN acct_ids : acct_ids[a] # None
    /\ ret.op = "set_host" /\ ret.arg \in DOMAIN clients /\ clients[ret.arg] = None
    /\ net = <<>>

\* The call was made without its target: an account call without acct or
\* with a bare handle and no active host, an instance call without host
\* and no active host
Untargeted(r, active) ==
    \/ /\ r.op = "account"
       /\ \/ r.arg.type = "NoneType"
          \/ r.arg.type = "str" /\ Separators(r.arg.val) = 0 /\ active = None
    \/ r.op = "instance" /\ r.arg = None /\ active = None

\* C14: a call made without its required target raises FliptonError, makes
\* no library operation and changes none of clients, acct_ids, active_host,
\* previous_host.
C14_UntargetedCallRejected ==
    [][Untargeted(ret', active_host)
       => /\ ret'.raised = "FliptonError"
          /\ net' = <<>>
          /\ UNCHANGED <<clients, acct_ids, active_host, previous_host>>]_vars

\* C14 witness: a bare handle was refused for want of an active host while
\* the caches were filled and a previous host was set.
C14_Witness ==
    /\ ret.op = "account" /\ ret.arg.type = "str" /\ Separators(ret.arg.val) = 0
    /\ ret.entry = None /\ ret.raised = "FliptonError"
    /\ previous_host # None
    /\ DOMAIN acct_ids # {}

\* C15: a generated call makes its delegated library call at most once, and
\* not at all when it fails because the host could not be connected or the
\* id could not be resolved.
C15_AtMostOneDelegatedCall ==
    Generated =>
        /\ Cardinality(Delegated) <= 1
        /\ ret.line \in {210, 254, 259, 292} => Delegated = {}

\* C15 witness: the delegated call of a generated method raised and was
\* made once.
C15_Witness ==
    /\ Generated /\ ret.line = 214
    /\ Cardinality(Delegated) = 1

\* C16: between public calls an active host has a real client in the
\* client cache, never a missing entry and never the None of a failed
\* creation.
C16_ActiveHostHasClient ==
    active_host # None =>
        (active_host \in DOMAIN clients /\ clients[active_host] # None)

\* C17: directly after a successful generated call, a continuation call
\* given a result page is dispatched to the client of the host that served
\* that call.
C17_ContinuationOnServingHost ==
    (Generated /\ ret.raised = None) =>
        \A env \in CallEnvs :
            LET r == instance_method(Cur, "fetch_next", Page, NoKwargs, env)
            IN /\ r.st.net # <<>>
               /\ LastOp(r.st.net).op = "fetch_next"
               /\ LastOp(r.st.net).host = LastOp(net).host

\* C18: an account call given a numeric acct makes its delegated call on
\* the client of the active host without a lookup or a host switch, and
\* without an active host it raises FliptonError.
C18_NumericAcctOnActiveHost ==
    (ret.op = "account" /\ ret.arg.type = "int") =>
        /\ \A i \in DOMAIN net :
              /\ i \in Delegated
              /\ net[i].op = ClientMethod(ret.method) /\ net[i].host = ret.entry
        /\ active_host = ret.entry
        /\ ret.entry = None => ret.raised = "FliptonError"

====
